---- MODULE Spec2Model ----
(***************************************************************************)
(* Model of the houseform <Form> component (src/lib/form/form.tsx): the    *)
(* field registry, the lazily armed derived-state cache, reset() and the   *)
(* asynchronous submit() pipeline.                                         *)
(*                                                                         *)
(* Conventions.                                                            *)
(*  - A JavaScript value is a token (a string): "undefined", "''" (the     *)
(*    empty string), "0", "x", "y" (truthy scalars), "[]" and "[1]"        *)
(*    (arrays; every array is truthy).                                     *)
(*  - A nullable React state cell holds <<>> for null and <<v>> for v.     *)
(*  - A React state setter takes effect with the step that calls it (one   *)
(*    step is one event handler followed by the render it schedules).      *)
(*  - Field handles are mutable objects owned by the field collaborators;  *)
(*    field[n] is the handle registered under the literal name n.          *)
(***************************************************************************)
EXTENDS Integers, Sequences, FiniteSets, TLC

\* ------------------------------------------------------------------ bounds
\* Longest registry drawn by the initial states of SpecAgg.
MaxFields == 2

\* ------------------------------------------------------------ JS values
Undefined == "undefined"
Falsy == {"undefined", "''", "0"}
Arrays == {"[]", "[1]"}

\* Array.isArray(v)
IsArray(v) == v \in Arrays

Truthy(v) == v \notin Falsy

\* a || b
JsOr(a, b) == IF Truthy(a) THEN a ELSE b

Null == <<>>
Some(v) == <<v>>

\* ------------------------------------------------------------ field handles
\* Literal field names; "l[0]" and "l.0" have the same normalized dotted name.
Names == {"a", "l[0]", "l.0"}

\* The order in which the initial states of SpecAgg fill the registry.
NameOrder == <<"a", "l[0]", "l.0">>

ErrorLists == {<<>>, <<"e1">>, <<"e2">>, <<"e1", "e1">>, <<"e1", "e2">>}

\* props of a field: the declared reset and initial values and whether a
\* validator is declared for each phase.
NoProps ==
  [resetWithValue |-> Undefined, initialValue |-> Undefined,
   onChangeValidate |-> FALSE, onBlurValidate |-> FALSE, onSubmitValidate |-> FALSE]

\* The handle of a name no mounted field owns.
NoField ==
  [props |-> NoProps, value |-> Undefined, errors |-> <<>>,
   isDirty |-> FALSE, isTouched |-> FALSE]

NewField(p, v, e, d, t) ==
  [props |-> p, value |-> v, errors |-> e, isDirty |-> d, isTouched |-> t]

VARIABLES
  formFieldsRef,    \* formFieldsRef.current: the registry, a sequence of names
  field,            \* the field handles, by literal name
  _errors, _isValid, _isDirty, _isTouched,    \* the four cache slots
  shouldRerenderErrorOnRecompute,
  shouldRerenderIsValidOnRecompute,
  shouldRerenderIsDirtyOnRecompute,
  shouldRerenderIsTouchedOnRecompute,
  submitWhenInvalid,  \* the submitWhenInvalid prop
  isSubmitted,
  promise,          \* the promise of the latest submit(): "none" before the first
                    \* call, then "pending", "true", "false" or "rejected"
  snapshot,         \* the registry as submit() mapped it: one chain per entry
  chain,            \* per name: "none", the validator the chain awaits, or the
                    \* boolean ("true" / "false") its async function returned
  values,           \* the result object under construction: <<path, value>> in
                    \* key insertion order
  onSubmitCalls,    \* calls of the user onSubmit made by the latest submit()
  onSubmitArg,      \* the result object handed to the last of those calls
  onSubmitThrew,    \* whether that call threw
  log,              \* history, per name: the validators the latest submit() invoked
  fills,            \* history: the fillPath calls of the latest submit(), in order
  read,             \* history: the slots whose getter has been called
  lastOp,           \* history: the operation that made the last step
  found             \* history: the last getFieldValue call, its name and result

cacheVars ==
  <<_errors, _isValid, _isDirty, _isTouched,
    shouldRerenderErrorOnRecompute, shouldRerenderIsValidOnRecompute,
    shouldRerenderIsDirtyOnRecompute, shouldRerenderIsTouchedOnRecompute>>

fieldVars == <<formFieldsRef, field>>

submitVars ==
  <<submitWhenInvalid, isSubmitted, promise, snapshot, chain, values,
    onSubmitCalls, onSubmitArg, onSubmitThrew, log, fills>>

vars == <<fieldVars, cacheVars, submitVars, read, lastOp, found>>

\* ------------------------------------------------------------ aggregates
RECURSIVE reduceErrors(_, _, _, _)
reduceErrors(refs, flds, i, acc) ==
  IF i > Len(refs) THEN acc
  ELSE reduceErrors(refs, flds, i + 1, acc \o flds[refs[i]].errors)

\* formFieldsRef.current.reduce((acc, field) => acc.concat(field.errors), [])
getErrors(refs, flds) == reduceErrors(refs, flds, 1, <<>>)

RECURSIVE everyNoErrors(_, _, _)
everyNoErrors(refs, flds, i) ==
  IF i > Len(refs) THEN TRUE
  ELSE IF Len(flds[refs[i]].errors) = 0 THEN everyNoErrors(refs, flds, i + 1)
  ELSE FALSE

\* Mutant of getValidBoolean: `some` where the code has `every`.
getValidBoolean_some(refs, flds) ==
  IF Len(refs) = 0 THEN TRUE
  ELSE \E i \in 1..Len(refs) : Len(flds[refs[i]].errors) = 0

getValidBoolean(refs, flds) ==
  IF Len(refs) = 0 THEN TRUE ELSE everyNoErrors(refs, flds, 1)

\* !!field[booleanFieldName]
FieldFlag(f, booleanFieldName) ==
  IF booleanFieldName = "isDirty" THEN f.isDirty ELSE f.isTouched

RECURSIVE someFlag(_, _, _, _)
someFlag(refs, flds, booleanFieldName, i) ==
  IF i > Len(refs) THEN FALSE
  ELSE IF FieldFlag(flds[refs[i]], booleanFieldName) THEN TRUE
  ELSE someFlag(refs, flds, booleanFieldName, i + 1)

getFieldBoolean(refs, flds, booleanFieldName) ==
  someFlag(refs, flds, booleanFieldName, 1)

\* ------------------------------------------------------------ recompute
\* Mutant of recomputeErrors: both branches test the errors arm flag.
recomputeErrors_oneFlag ==
  /\ _errors' = IF shouldRerenderErrorOnRecompute
                THEN Some(getErrors(formFieldsRef, field)) ELSE _errors
  /\ _isValid' = IF shouldRerenderErrorOnRecompute
                 THEN Some(getValidBoolean(formFieldsRef, field)) ELSE _isValid
  /\ lastOp' = "recomputeErrors"
  /\ UNCHANGED <<found, submitVars, fieldVars, _isDirty, _isTouched, read,
                 shouldRerenderErrorOnRecompute, shouldRerenderIsValidOnRecompute,
                 shouldRerenderIsDirtyOnRecompute, shouldRerenderIsTouchedOnRecompute>>

\* Mutant of recomputeErrors: validity is derived from the cached errors slot.
recomputeErrors_fromSlot ==
  /\ _errors' = IF shouldRerenderErrorOnRecompute
                THEN Some(getErrors(formFieldsRef, field)) ELSE _errors
  /\ _isValid' = IF shouldRerenderIsValidOnRecompute
                 THEN Some(_errors = Some(<<>>)) ELSE _isValid
  /\ lastOp' = "recomputeErrors"
  /\ UNCHANGED <<found, submitVars, fieldVars, _isDirty, _isTouched, read,
                 shouldRerenderErrorOnRecompute, shouldRerenderIsValidOnRecompute,
                 shouldRerenderIsDirtyOnRecompute, shouldRerenderIsTouchedOnRecompute>>

recomputeErrors ==
  /\ _errors' = IF shouldRerenderErrorOnRecompute
                THEN Some(getErrors(formFieldsRef, field)) ELSE _errors
  /\ _isValid' = IF shouldRerenderIsValidOnRecompute
                 THEN Some(getValidBoolean(formFieldsRef, field)) ELSE _isValid
  /\ lastOp' = "recomputeErrors"
  /\ UNCHANGED <<found, submitVars, fieldVars, _isDirty, _isTouched, read,
                 shouldRerenderErrorOnRecompute, shouldRerenderIsValidOnRecompute,
                 shouldRerenderIsDirtyOnRecompute, shouldRerenderIsTouchedOnRecompute>>

recomputeIsDirty ==
  /\ _isDirty' = IF shouldRerenderIsDirtyOnRecompute
                 THEN Some(getFieldBoolean(formFieldsRef, field, "isDirty"))
                 ELSE _isDirty
  /\ lastOp' = "recomputeIsDirty"
  /\ UNCHANGED <<found, submitVars, fieldVars, _errors, _isValid, _isTouched, read,
                 shouldRerenderErrorOnRecompute, shouldRerenderIsValidOnRecompute,
                 shouldRerenderIsDirtyOnRecompute, shouldRerenderIsTouchedOnRecompute>>

recomputeIsTouched ==
  /\ _isTouched' = IF shouldRerenderIsTouchedOnRecompute
                   THEN Some(getFieldBoolean(formFieldsRef, field, "isTouched"))
                   ELSE _isTouched
  /\ lastOp' = "recomputeIsTouched"
  /\ UNCHANGED <<found, submitVars, fieldVars, _errors, _isValid, _isDirty, read,
                 shouldRerenderErrorOnRecompute, shouldRerenderIsValidOnRecompute,
                 shouldRerenderIsDirtyOnRecompute, shouldRerenderIsTouchedOnRecompute>>

\* The cache as one value, and what each recompute makes of it over the
\* registry refs of handles flds.
Cache ==
  [errors |-> _errors, isValid |-> _isValid, isDirty |-> _isDirty,
   isTouched |-> _isTouched,
   armErrors |-> shouldRerenderErrorOnRecompute,
   armIsValid |-> shouldRerenderIsValidOnRecompute,
   armIsDirty |-> shouldRerenderIsDirtyOnRecompute,
   armIsTouched |-> shouldRerenderIsTouchedOnRecompute]

AfterRecomputeErrors(c, refs, flds) ==
  [c EXCEPT !.errors = IF c.armErrors THEN Some(getErrors(refs, flds)) ELSE @,
            !.isValid = IF c.armIsValid
                        THEN Some(getValidBoolean(refs, flds)) ELSE @]

AfterRecomputeIsDirty(c, refs, flds) ==
  [c EXCEPT !.isDirty = IF c.armIsDirty
                        THEN Some(getFieldBoolean(refs, flds, "isDirty")) ELSE @]

AfterRecomputeIsTouched(c, refs, flds) ==
  [c EXCEPT !.isTouched = IF c.armIsTouched
                          THEN Some(getFieldBoolean(refs, flds, "isTouched"))
                          ELSE @]

\* ------------------------------------------------------------ getters
errorGetter ==
  /\ shouldRerenderErrorOnRecompute' = TRUE
  /\ _errors' = IF _errors = Null
                THEN Some(getErrors(formFieldsRef, field)) ELSE _errors
  /\ read' = read \cup {"errors"}
  /\ lastOp' = "errors"
  /\ UNCHANGED <<found, submitVars, fieldVars, _isValid, _isDirty, _isTouched,
                 shouldRerenderIsValidOnRecompute,
                 shouldRerenderIsDirtyOnRecompute, shouldRerenderIsTouchedOnRecompute>>

isValidGetter ==
  /\ shouldRerenderIsValidOnRecompute' = TRUE
  /\ _isValid' = IF _isValid = Null
                 THEN Some(getValidBoolean(formFieldsRef, field)) ELSE _isValid
  /\ read' = read \cup {"isValid"}
  /\ lastOp' = "isValid"
  /\ UNCHANGED <<found, submitVars, fieldVars, _errors, _isDirty, _isTouched,
                 shouldRerenderErrorOnRecompute,
                 shouldRerenderIsDirtyOnRecompute, shouldRerenderIsTouchedOnRecompute>>

isDirtyGetter ==
  /\ shouldRerenderIsDirtyOnRecompute' =
       IF _isDirty = Null THEN TRUE ELSE shouldRerenderIsDirtyOnRecompute
  /\ _isDirty' = IF _isDirty = Null
                 THEN Some(getFieldBoolean(formFieldsRef, field, "isDirty"))
                 ELSE _isDirty
  /\ read' = read \cup {"isDirty"}
  /\ lastOp' = "isDirty"
  /\ UNCHANGED <<found, submitVars, fieldVars, _errors, _isValid, _isTouched,
                 shouldRerenderErrorOnRecompute, shouldRerenderIsValidOnRecompute,
                 shouldRerenderIsTouchedOnRecompute>>

isTouchedGetter ==
  /\ shouldRerenderIsTouchedOnRecompute' =
       IF _isTouched = Null THEN TRUE ELSE shouldRerenderIsTouchedOnRecompute
  /\ _isTouched' = IF _isTouched = Null
                   THEN Some(getFieldBoolean(formFieldsRef, field, "isTouched"))
                   ELSE _isTouched
  /\ read' = read \cup {"isTouched"}
  /\ lastOp' = "isTouched"
  /\ UNCHANGED <<found, submitVars, fieldVars, _errors, _isValid, _isDirty,
                 shouldRerenderErrorOnRecompute, shouldRerenderIsValidOnRecompute,
                 shouldRerenderIsDirtyOnRecompute>>

\* ------------------------------------------------------------ reset
\* Mutant of ResetValue: the two fallbacks swapped.
ResetValue_swapped(f) ==
  LET value == JsOr(f.props.resetWithValue, f.props.initialValue)
  IN  IF IsArray(f.value) THEN JsOr(value, "''") ELSE JsOr(value, "[]")

\* The value reset() hands to the setter of field f.
ResetValue(f) ==
  LET value == JsOr(f.props.resetWithValue, f.props.initialValue)
  IN  IF IsArray(f.value) THEN JsOr(value, "[]") ELSE JsOr(value, "''")

\* formFieldsRef.current.forEach(...): only registered handles are reset.
ResetFields(refs, flds) ==
  [n \in DOMAIN flds |->
     IF \E i \in 1..Len(refs) : refs[i] = n
     THEN [flds[n] EXCEPT !.value = ResetValue(flds[n])]
     ELSE flds[n]]

reset ==
  /\ field' = ResetFields(formFieldsRef, field)
  /\ _isDirty' = Some(FALSE)
  /\ _isTouched' = Some(FALSE)
  /\ _errors' = Null
  /\ lastOp' = "reset"
  /\ UNCHANGED <<found, submitVars, formFieldsRef, _isValid, read,
                 shouldRerenderErrorOnRecompute, shouldRerenderIsValidOnRecompute,
                 shouldRerenderIsDirtyOnRecompute, shouldRerenderIsTouchedOnRecompute>>

\* ------------------------------------------------------------ submit
Phases == <<"onChangeValidate", "onBlurValidate", "onSubmitValidate">>

PhaseIndex(type) == CHOOSE i \in 1..Len(Phases) : Phases[i] = type

Awaiting == {Phases[i] : i \in 1..Len(Phases)}

\* What a validator call can end as: the promise resolves, or it rejects (or
\* the validator throws) with a plain string or with a ZodError.
Resolved == [kind |-> "resolved", text |-> "", issues |-> <<>>]

Thrown ==
  {[kind |-> "string", text |-> "e1", issues |-> <<>>],
   [kind |-> "zod", text |-> "",
    issues |-> <<[message |-> "e1"], [message |-> "e2"]>>]}

\* getValidationError(error): the messages of a ZodError's issues, or the
\* string itself as the only message.
getValidationError(error) ==
  IF error.kind = "zod"
  THEN [i \in 1..Len(error.issues) |-> error.issues[i].message]
  ELSE <<error.text>>

\* stringToPath(name).join(".")
NormalizedDotName(name) == IF name = "l[0]" THEN "l.0" ELSE name

\* fillPath(values, name, value): the leaf at the path of name is set; a new
\* key goes after the existing ones, an existing key keeps its place.
fillPath(vals, name, value) ==
  LET path == NormalizedDotName(name)
  IN  IF \E i \in 1..Len(vals) : vals[i][1] = path
      THEN [i \in 1..Len(vals) |->
              IF vals[i][1] = path THEN <<path, value>> ELSE vals[i]]
      ELSE Append(vals, <<path, value>>)

\* The state the chains of one submit() work on.
ChainState(flds, ch, vals, lg, fl) ==
  [field |-> flds, chain |-> ch, values |-> vals, log |-> lg, fills |-> fl]

\* Mutant of ChainEnd: the value is projected before the error check.
ChainEnd_fillFirst(S, n) ==
  [S EXCEPT !.chain[n] = IF Len(S.field[n].errors) > 0 THEN "false" ELSE "true",
            !.values = fillPath(@, n, S.field[n].value),
            !.fills = Append(@, <<n, S.field[n].value>>)]

\* Mutant of ChainEnd: the field's error list is not looked at.
ChainEnd_noErrorCheck(S, n) ==
  [S EXCEPT !.chain[n] = "true",
            !.values = fillPath(@, n, S.field[n].value),
            !.fills = Append(@, <<n, S.field[n].value>>)]

\* Lines 259-261: the three phases passed.
ChainEnd(S, n) ==
  IF Len(S.field[n].errors) > 0
  THEN [S EXCEPT !.chain[n] = "false"]
  ELSE [S EXCEPT !.chain[n] = "true",
                 !.values = fillPath(@, n, S.field[n].value),
                 !.fills = Append(@, <<n, S.field[n].value>>)]

\* The chain of field n from phase i on, up to its next suspension: a phase
\* with no validator returns true at once (line 240); a declared validator is
\* called with the field's current value and the chain awaits it (line 242).
RECURSIVE ChainFrom(_, _, _)
ChainFrom(S, n, i) ==
  IF i > Len(Phases) THEN ChainEnd(S, n)
  ELSE IF ~S.field[n].props[Phases[i]] THEN ChainFrom(S, n, i + 1)
  ELSE [S EXCEPT !.chain[n] = Phases[i],
                 !.log[n] = Append(@, [type |-> Phases[i],
                                       value |-> S.field[n].value,
                                       status |-> "pending",
                                       thrown |-> Resolved])]

\* history: how the last validator call of a chain ended.
SetStatus(lg, outcome) ==
  [lg EXCEPT ![Len(lg)].status = IF outcome = Resolved THEN "passed" ELSE "failed",
             ![Len(lg)].thrown = outcome]

\* Mutant of ValidatorSettled: a failed phase does not end the chain.
ValidatorSettled_noEarlyExit(S, n, outcome) ==
  IF outcome = Resolved
  THEN ChainFrom([S EXCEPT !.log[n] = SetStatus(@, outcome)],
                 n, PhaseIndex(S.chain[n]) + 1)
  ELSE ChainFrom([S EXCEPT !.field[n].errors = getValidationError(outcome),
                           !.log[n] = SetStatus(@, outcome)],
                 n, PhaseIndex(S.chain[n]) + 1)

\* Mutant of ValidatorSettled: the catch block is missing.
ValidatorSettled_noCatch(S, n, outcome) ==
  IF outcome = Resolved
  THEN ChainFrom([S EXCEPT !.log[n] = SetStatus(@, outcome)],
                 n, PhaseIndex(S.chain[n]) + 1)
  ELSE [S EXCEPT !.chain[n] = "threw",
                 !.log[n] = SetStatus(@, outcome)]

\* Lines 241-258: the validator the chain of n awaits settles.
ValidatorSettled(S, n, outcome) ==
  IF outcome = Resolved
  THEN ChainFrom([S EXCEPT !.log[n] = SetStatus(@, outcome)],
                 n, PhaseIndex(S.chain[n]) + 1)
  ELSE [S EXCEPT !.field[n].errors = getValidationError(outcome),
                 !.chain[n] = "false",
                 !.log[n] = SetStatus(@, outcome)]

\* formFieldsRef.current.map(async (formField) => ...): the chains start in
\* registry order and each runs to its first suspension.
RECURSIVE MapChains(_, _, _)
MapChains(S, refs, i) ==
  IF i > Len(refs) THEN S ELSE MapChains(ChainFrom(S, refs[i], 1), refs, i + 1)

\* Mutant of AllReturned: the first chain to return settles the promise.
AllReturned_any(refs, ch) == \E i \in 1..Len(refs) : ch[refs[i]] \in {"true", "false"}

\* Promise.all has a value once every chain has returned.
AllReturned(refs, ch) == \A i \in 1..Len(refs) : ch[refs[i]] \in {"true", "false"}

validArrays(refs, ch) == [i \in 1..Len(refs) |-> ch[refs[i]] = "true"]

\* Mutant of GateAborts: `some` where the code has `every`.
GateAborts_some(swi, valid) ==
  /\ ~swi
  /\ ~(\E i \in 1..Len(valid) : valid[i])

\* Lines 265-269.
GateAborts(swi, valid) ==
  /\ ~swi
  /\ ~(\A i \in 1..Len(valid) : valid[i])

\* Mutant of Settle: the throw of the user onSubmit callback is swallowed.
Settle_swallowsThrow(S, refs, cb) ==
  IF \E i \in 1..Len(refs) : S.chain[refs[i]] = "threw"
  THEN /\ promise' = "rejected"
       /\ onSubmitCalls' = 0
       /\ onSubmitArg' = Null
       /\ onSubmitThrew' = FALSE
  ELSE IF ~AllReturned(refs, S.chain)
  THEN /\ promise' = "pending"
       /\ onSubmitCalls' = 0
       /\ onSubmitArg' = Null
       /\ onSubmitThrew' = FALSE
  ELSE IF GateAborts(submitWhenInvalid, validArrays(refs, S.chain))
  THEN /\ promise' = "false"
       /\ onSubmitCalls' = 0
       /\ onSubmitArg' = Null
       /\ onSubmitThrew' = FALSE
  ELSE /\ promise' = "true"
       /\ onSubmitCalls' = 1
       /\ onSubmitArg' = Some(S.values)
       /\ onSubmitThrew' = (cb = "throws")

\* The promise of submit() once the chains have run as far as S: pending while
\* a chain is suspended; then the gate, the onSubmit call and the result. A
\* chain that rejects rejects Promise.all and, with it, submit().
Settle(S, refs, cb) ==
  IF \E i \in 1..Len(refs) : S.chain[refs[i]] = "threw"
  THEN /\ promise' = "rejected"
       /\ onSubmitCalls' = 0
       /\ onSubmitArg' = Null
       /\ onSubmitThrew' = FALSE
  ELSE IF ~AllReturned(refs, S.chain)
  THEN /\ promise' = "pending"
       /\ onSubmitCalls' = 0
       /\ onSubmitArg' = Null
       /\ onSubmitThrew' = FALSE
  ELSE IF GateAborts(submitWhenInvalid, validArrays(refs, S.chain))
  THEN /\ promise' = "false"
       /\ onSubmitCalls' = 0
       /\ onSubmitArg' = Null
       /\ onSubmitThrew' = FALSE
  ELSE /\ promise' = IF cb = "throws" THEN "rejected" ELSE "true"
       /\ onSubmitCalls' = 1
       /\ onSubmitArg' = Some(S.values)
       /\ onSubmitThrew' = (cb = "throws")

\* form.submit() is called; cb is how the user onSubmit callback ends if the
\* call gets that far. One submit() is in flight at a time.
submit(cb) ==
  /\ promise # "pending"
  /\ LET S == MapChains(ChainState(field, [n \in Names |-> "none"], <<>>,
                                   [n \in Names |-> <<>>], <<>>),
                        formFieldsRef, 1)
     IN  /\ field' = S.field
         /\ chain' = S.chain
         /\ values' = S.values
         /\ log' = S.log
         /\ fills' = S.fills
         /\ Settle(S, formFieldsRef, cb)
  /\ isSubmitted' = TRUE
  /\ snapshot' = formFieldsRef
  /\ lastOp' = "submit"
  /\ UNCHANGED <<found, formFieldsRef, cacheVars, submitWhenInvalid, read>>

\* Mutant of ValidatorSettles: the continuation refreshes the armed errors and
\* isValid slots from the fields.
ValidatorSettles_recomputes(n, outcome, cb) ==
  /\ promise = "pending"
  /\ chain[n] \in Awaiting
  /\ LET S == ValidatorSettled(ChainState(field, chain, values, log, fills),
                               n, outcome)
     IN  /\ field' = S.field
         /\ chain' = S.chain
         /\ values' = S.values
         /\ log' = S.log
         /\ fills' = S.fills
         /\ Settle(S, snapshot, cb)
         /\ _errors' = IF shouldRerenderErrorOnRecompute
                       THEN Some(getErrors(formFieldsRef, S.field)) ELSE _errors
         /\ _isValid' = IF shouldRerenderIsValidOnRecompute
                        THEN Some(getValidBoolean(formFieldsRef, S.field))
                        ELSE _isValid
  /\ lastOp' = "settle"
  /\ UNCHANGED <<found, formFieldsRef, submitWhenInvalid, isSubmitted,
                 snapshot, read, _isDirty, _isTouched,
                 shouldRerenderErrorOnRecompute, shouldRerenderIsValidOnRecompute,
                 shouldRerenderIsDirtyOnRecompute, shouldRerenderIsTouchedOnRecompute>>

\* The validator awaited by the chain of n settles with outcome; the chain
\* resumes and, when it was the last one running, submit() finishes.
ValidatorSettles(n, outcome, cb) ==
  /\ promise = "pending"
  /\ chain[n] \in Awaiting
  /\ LET S == ValidatorSettled(ChainState(field, chain, values, log, fills),
                               n, outcome)
     IN  /\ field' = S.field
         /\ chain' = S.chain
         /\ values' = S.values
         /\ log' = S.log
         /\ fills' = S.fills
         /\ Settle(S, snapshot, cb)
  /\ lastOp' = "settle"
  /\ UNCHANGED <<found, formFieldsRef, cacheVars, submitWhenInvalid, isSubmitted,
                 snapshot, read>>

\* ------------------------------------------------------------ getFieldValue
\* Array.prototype.find: the first element of refs that passes the test,
\* given as the set of the names that pass it, or undefined (Null). A handle
\* is identified by its literal name.
find(refs, passing) ==
  LET hits == {i \in 1..Len(refs) : refs[i] \in passing}
  IN  IF hits = {} THEN Null
      ELSE Some(refs[CHOOSE i \in hits : \A j \in hits : i <= j])

\* Mutant of getFieldValue: the normalized match is tried before the literal one.
getFieldValue_normalizedFirst(refs, name) ==
  LET normalizedName == NormalizedDotName(name)
      hit == find(refs, {n \in Names : NormalizedDotName(n) = normalizedName})
  IN  IF hit # Null THEN hit
      ELSE find(refs, {name})

\* Lines 37-49. The _normalizedDotName of a handle is the normalized form of
\* its literal name.
getFieldValue(refs, name) ==
  LET hit == find(refs, {name})
  IN  IF hit # Null THEN hit
      ELSE LET normalizedName == NormalizedDotName(name)
           IN  find(refs, {n \in Names : NormalizedDotName(n) = normalizedName})

\* form.getFieldValue(name) is called.
CallGetFieldValue(name) ==
  /\ found' = [name |-> name, handle |-> getFieldValue(formFieldsRef, name)]
  /\ lastOp' = "getFieldValue"
  /\ UNCHANGED <<fieldVars, cacheVars, submitVars, read>>

\* ------------------------------------------------------------ the handles
\* Object.keys(baseValue), in the order the object literal lists them.
BaseKeys ==
  <<"getFieldValue", "onChangeListenerRefs", "onBlurListenerRefs",
    "onMountListenerRefs", "isSubmitted", "setIsSubmitted", "formFieldsRef",
    "setIsTouched", "setIsDirty", "recomputeErrors", "recomputeIsDirty",
    "recomputeIsTouched", "reset", "errors", "isValid", "isDirty", "isTouched",
    "submit">>

\* Mutant of omittedKeysToPick: the registries are left out of the copy too.
omittedKeysToPick_andRegistries ==
  {"errors", "isValid", "isDirty", "isTouched", "submit", "reset",
   "formFieldsRef", "onChangeListenerRefs", "onBlurListenerRefs",
   "onMountListenerRefs"}

omittedKeysToPick ==
  {"errors", "isValid", "isDirty", "isTouched", "submit", "reset"}

\* The root base object: the registry and the submitted flag are the engine's
\* own, every other member is named by its key.
baseValue ==
  [k \in {BaseKeys[i] : i \in 1..Len(BaseKeys)} |->
     IF k = "formFieldsRef" THEN Some(formFieldsRef)
     ELSE IF k = "isSubmitted" THEN Some(isSubmitted)
     ELSE <<"baseValue", k>>]

\* The object literal `val`: reset, submit and the four getters of its own.
ValLiteral ==
  [k \in {"reset", "submit", "errors", "isValid", "isDirty", "isTouched"} |->
     <<"val", k>>]

\* for (const key of Object.keys(baseValue)): the keys from the i-th on are
\* copied onto val unless omitted.
RECURSIVE PickKeys(_, _)
PickKeys(val, i) ==
  IF i > Len(BaseKeys) THEN val
  ELSE IF BaseKeys[i] \in omittedKeysToPick THEN PickKeys(val, i + 1)
  ELSE PickKeys([k \in DOMAIN val \cup {BaseKeys[i]} |->
                   IF k = BaseKeys[i] THEN baseValue[k] ELSE val[k]], i + 1)

\* The public handle: what the context, the ref and the children receive.
value == PickKeys(ValLiteral, 1)

\* ------------------------------------------------------------ collaborators
InRegistry(n) == \E i \in 1..Len(formFieldsRef) : formFieldsRef[i] = n

\* A field collaborator mounts: it pushes its handle onto the registry.
Register(n, f) ==
  /\ ~InRegistry(n)
  /\ chain[n] \notin Awaiting
  /\ formFieldsRef' = Append(formFieldsRef, n)
  /\ field' = [field EXCEPT ![n] = f]
  /\ lastOp' = "register"
  /\ UNCHANGED <<found, cacheVars, submitVars, read>>

\* A field collaborator unmounts: it splices its handle out of the registry.
Unregister(n) ==
  /\ InRegistry(n)
  /\ formFieldsRef' = SelectSeq(formFieldsRef, LAMBDA m : m # n)
  /\ field' = IF chain[n] \in Awaiting THEN field
              ELSE [field EXCEPT ![n] = NoField]
  /\ lastOp' = "unregister"
  /\ UNCHANGED <<found, cacheVars, submitVars, read>>

\* field.setErrors(e) called by the field collaborator itself.
FieldSetErrors(n, e) ==
  /\ InRegistry(n)
  /\ field' = [field EXCEPT ![n].errors = e]
  /\ lastOp' = "setErrors"
  /\ UNCHANGED <<found, formFieldsRef, cacheVars, submitVars, read>>

FieldSetIsDirty(n, b) ==
  /\ InRegistry(n)
  /\ field' = [field EXCEPT ![n].isDirty = b]
  /\ lastOp' = "setIsDirty"
  /\ UNCHANGED <<found, formFieldsRef, cacheVars, submitVars, read>>

FieldSetIsTouched(n, b) ==
  /\ InRegistry(n)
  /\ field' = [field EXCEPT ![n].isTouched = b]
  /\ lastOp' = "setIsTouched"
  /\ UNCHANGED <<found, formFieldsRef, cacheVars, submitVars, read>>

\* The user edits a field.
FieldSetValue(n, v) ==
  /\ InRegistry(n)
  /\ field' = [field EXCEPT ![n].value = v]
  /\ lastOp' = "setValue"
  /\ UNCHANGED <<found, formFieldsRef, cacheVars, submitVars, read>>

\* A field collaborator changes its own errors, isDirty or isTouched and then
\* calls the matching recompute of the form.
FieldErrorsChange(n, e) ==
  /\ InRegistry(n)
  /\ field' = [field EXCEPT ![n].errors = e]
  /\ LET c == AfterRecomputeErrors(Cache, formFieldsRef, field')
     IN  _errors' = c.errors /\ _isValid' = c.isValid
  /\ lastOp' = "errorsChange"
  /\ UNCHANGED <<found, formFieldsRef, submitVars, read, _isDirty, _isTouched,
                 shouldRerenderErrorOnRecompute, shouldRerenderIsValidOnRecompute,
                 shouldRerenderIsDirtyOnRecompute, shouldRerenderIsTouchedOnRecompute>>

FieldIsDirtyChange(n, b) ==
  /\ InRegistry(n)
  /\ field' = [field EXCEPT ![n].isDirty = b]
  /\ _isDirty' = AfterRecomputeIsDirty(Cache, formFieldsRef, field').isDirty
  /\ lastOp' = "isDirtyChange"
  /\ UNCHANGED <<found, formFieldsRef, submitVars, read, _errors, _isValid,
                 _isTouched,
                 shouldRerenderErrorOnRecompute, shouldRerenderIsValidOnRecompute,
                 shouldRerenderIsDirtyOnRecompute, shouldRerenderIsTouchedOnRecompute>>

FieldIsTouchedChange(n, b) ==
  /\ InRegistry(n)
  /\ field' = [field EXCEPT ![n].isTouched = b]
  /\ _isTouched' = AfterRecomputeIsTouched(Cache, formFieldsRef, field').isTouched
  /\ lastOp' = "isTouchedChange"
  /\ UNCHANGED <<found, formFieldsRef, submitVars, read, _errors, _isValid,
                 _isDirty,
                 shouldRerenderErrorOnRecompute, shouldRerenderIsValidOnRecompute,
                 shouldRerenderIsDirtyOnRecompute, shouldRerenderIsTouchedOnRecompute>>

\* ------------------------------------------------------------ initial states
CacheInit ==
  /\ _errors = Null /\ _isValid = Null /\ _isDirty = Null /\ _isTouched = Null
  /\ shouldRerenderErrorOnRecompute = FALSE
  /\ shouldRerenderIsValidOnRecompute = FALSE
  /\ shouldRerenderIsDirtyOnRecompute = FALSE
  /\ shouldRerenderIsTouchedOnRecompute = FALSE
  /\ read = {}
  /\ lastOp = "init"
  /\ found = [name |-> "", handle |-> Null]

\* No submit() has been called yet.
SubmitInit ==
  /\ isSubmitted = FALSE
  /\ promise = "none"
  /\ snapshot = <<>>
  /\ chain = [n \in Names |-> "none"]
  /\ values = <<>>
  /\ onSubmitCalls = 0
  /\ onSubmitArg = Null
  /\ onSubmitThrew = FALSE
  /\ log = [n \in Names |-> <<>>]
  /\ fills = <<>>

\* The registries of k fields named NameOrder[1..k] whose handles are drawn from S.
Registries(k, S) ==
  {f \in [Names -> S \cup {NoField}] :
     \A i \in 1..Len(NameOrder) :
       IF i <= k THEN f[NameOrder[i]] \in S ELSE f[NameOrder[i]] = NoField}

\* ------------------------------------------------------------ SpecAgg
\* The aggregates as pure functions: any registry, read through the getters.
AggFields ==
  {NewField(NoProps, "x", e, d, t) : e \in ErrorLists, d \in BOOLEAN, t \in BOOLEAN}

InitAgg ==
  /\ CacheInit
  /\ SubmitInit
  /\ submitWhenInvalid = FALSE
  /\ \E k \in 0..MaxFields :
       /\ k <= Len(NameOrder)
       /\ formFieldsRef = SubSeq(NameOrder, 1, k)
       /\ field \in Registries(k, AggFields)

NextAgg ==
  \/ errorGetter
  \/ isValidGetter
  \/ isDirtyGetter
  \/ isTouchedGetter

SpecAgg == InitAgg /\ [][NextAgg]_vars

\* ------------------------------------------------------------ SpecCache
\* The derived-state cache under mounting, unmounting, field changes and reset.
CacheNames == {"a", "l[0]"}
CacheErrors == {<<>>, <<"e1">>}

InitCache ==
  /\ CacheInit
  /\ SubmitInit
  /\ submitWhenInvalid = FALSE
  /\ formFieldsRef = <<>>
  /\ field = [n \in Names |-> NoField]

NextCache ==
  \/ \E n \in CacheNames : Register(n, NewField(NoProps, "''", <<>>, FALSE, FALSE))
  \/ \E n \in CacheNames : Unregister(n)
  \/ \E n \in CacheNames, e \in CacheErrors : FieldSetErrors(n, e)
  \/ \E n \in CacheNames, b \in BOOLEAN : FieldSetIsDirty(n, b)
  \/ \E n \in CacheNames, b \in BOOLEAN : FieldSetIsTouched(n, b)
  \/ errorGetter
  \/ isValidGetter
  \/ isDirtyGetter
  \/ isTouchedGetter
  \/ recomputeErrors
  \/ recomputeIsDirty
  \/ recomputeIsTouched
  \/ reset

SpecCache == InitCache /\ [][NextCache]_vars

\* ------------------------------------------------------------ SpecReset
\* reset() over fields with every combination of declared reset and initial
\* value, interleaved with user edits and first reads of the cache.
ResetWithValues == {Undefined, "0", "x", "[1]"}
InitialValues == {Undefined, "y"}
EditValues == {"''", "x", "[1]"}

ResetProps ==
  {[NoProps EXCEPT !.resetWithValue = r, !.initialValue = i] :
     r \in ResetWithValues, i \in InitialValues}

ResetFieldSet ==
  {NewField(p, v, <<>>, FALSE, FALSE) : p \in ResetProps, v \in EditValues}

InitReset ==
  /\ CacheInit
  /\ SubmitInit
  /\ submitWhenInvalid = FALSE
  /\ \E k \in 0..2 :
       /\ formFieldsRef = SubSeq(NameOrder, 1, k)
       /\ field \in Registries(k, ResetFieldSet)

NextReset ==
  \/ reset
  \/ \E n \in Names, v \in EditValues : FieldSetValue(n, v)
  \/ errorGetter
  \/ isDirtyGetter

SpecReset == InitReset /\ [][NextReset]_vars

\* ------------------------------------------------------------ SpecMount
\* The cache while fields mount and unmount, every change a field makes to
\* its own state being followed by the matching recompute.
NextMount ==
  \/ \E n \in CacheNames : Register(n, NewField(NoProps, "''", <<>>, FALSE, FALSE))
  \/ \E n \in CacheNames : Unregister(n)
  \/ \E n \in CacheNames, e \in CacheErrors : FieldErrorsChange(n, e)
  \/ \E n \in CacheNames, b \in BOOLEAN : FieldIsDirtyChange(n, b)
  \/ \E n \in CacheNames, b \in BOOLEAN : FieldIsTouchedChange(n, b)
  \/ errorGetter
  \/ isValidGetter
  \/ isDirtyGetter
  \/ isTouchedGetter
  \/ recomputeErrors
  \/ recomputeIsDirty
  \/ recomputeIsTouched
  \/ reset

SpecMount == InitCache /\ [][NextMount]_vars

\* ------------------------------------------------------------ SpecLookup
\* getFieldValue by every name while fields mount and unmount in any order.
InitLookup ==
  /\ CacheInit
  /\ SubmitInit
  /\ submitWhenInvalid = FALSE
  /\ formFieldsRef = <<>>
  /\ field = [n \in Names |-> NoField]

NextLookup ==
  \/ \E n \in Names :
       /\ Len(formFieldsRef) < MaxFields
       /\ Register(n, NewField(NoProps, "''", <<>>, FALSE, FALSE))
  \/ \E n \in Names : Unregister(n)
  \/ \E name \in Names : CallGetFieldValue(name)

SpecLookup == InitLookup /\ [][NextLookup]_vars

\* ------------------------------------------------------------ Spec
\* submit() over registries of up to two fields with every kind of validator
\* set, while the fields set and clear their own errors.
ValidatorSets ==
  {<<FALSE, FALSE, FALSE>>, <<TRUE, FALSE, FALSE>>,
   <<FALSE, TRUE, TRUE>>, <<TRUE, TRUE, TRUE>>}

SubmitProps ==
  {[NoProps EXCEPT !.onChangeValidate = v[1], !.onBlurValidate = v[2],
                   !.onSubmitValidate = v[3]] : v \in ValidatorSets}

\* The value a field of Spec holds: the two fields that share a normalized
\* name hold different values.
SubmitValue(n) == IF n = "l[0]" THEN "y" ELSE "x"

SubmitRegistries ==
  {<<>>} \cup {<<n>> : n \in Names}
         \cup {r \in Names \X Names : r[1] # r[2]}

Init ==
  /\ CacheInit
  /\ SubmitInit
  /\ submitWhenInvalid \in BOOLEAN
  /\ formFieldsRef \in SubmitRegistries
  /\ \E p \in [Names -> SubmitProps] :
       field = [n \in Names |->
                  IF InRegistry(n)
                  THEN NewField(p[n], SubmitValue(n), <<>>, FALSE, FALSE)
                  ELSE NoField]

Next ==
  \/ \E cb \in {"returns", "throws"} : submit(cb)
  \/ \E n \in Names, outcome \in {Resolved} \cup Thrown,
        cb \in {"returns", "throws"} : ValidatorSettles(n, outcome, cb)
  \/ \E n \in Names, e \in CacheErrors : FieldSetErrors(n, e)

Spec == Init /\ [][Next]_vars

\* ------------------------------------------------------------ SpecLive
\* submit() while fields unmount and mount: the registry changes under the
\* chains that are running.
LiveProps ==
  {[NoProps EXCEPT !.onChangeValidate = v[1], !.onBlurValidate = v[2],
                   !.onSubmitValidate = v[3]] :
     v \in {<<FALSE, FALSE, FALSE>>, <<TRUE, FALSE, FALSE>>, <<TRUE, TRUE, TRUE>>}}

InitLive ==
  /\ CacheInit
  /\ SubmitInit
  /\ submitWhenInvalid \in BOOLEAN
  /\ formFieldsRef = <<>>
  /\ field = [n \in Names |-> NoField]

NextLive ==
  \/ \E cb \in {"returns", "throws"} : submit(cb)
  \/ \E n \in CacheNames, outcome \in {Resolved} \cup Thrown,
        cb \in {"returns", "throws"} : ValidatorSettles(n, outcome, cb)
  \/ \E n \in CacheNames : Unregister(n)
  \/ \E n \in CacheNames, p \in LiveProps :
       /\ Len(formFieldsRef) < MaxFields
       /\ Register(n, NewField(p, SubmitValue(n), <<>>, FALSE, FALSE))

SpecLive == InitLive /\ [][NextLive]_vars

\* ------------------------------------------------------------ SpecSubmitCache
\* submit() of mounted fields while errors, isValid and isDirty are read and
\* the fields call recomputeErrors.
InitSubmitCache ==
  /\ CacheInit
  /\ SubmitInit
  /\ submitWhenInvalid \in BOOLEAN
  /\ formFieldsRef \in {<<"a">>, <<"a", "l[0]">>}
  /\ \E p \in [Names -> LiveProps] :
       field = [n \in Names |->
                  IF InRegistry(n)
                  THEN NewField(p[n], SubmitValue(n), <<>>, FALSE, FALSE)
                  ELSE NoField]

NextSubmitCache ==
  \/ \E cb \in {"returns", "throws"} : submit(cb)
  \/ \E n \in CacheNames, outcome \in {Resolved} \cup Thrown,
        cb \in {"returns", "throws"} : ValidatorSettles(n, outcome, cb)
  \/ errorGetter
  \/ isValidGetter
  \/ isDirtyGetter
  \/ recomputeErrors

SpecSubmitCache == InitSubmitCache /\ [][NextSubmitCache]_vars

\* ------------------------------------------------------------ SpecEdit
\* submit() of mounted fields while the user edits them and calls reset().
InitEdit ==
  /\ CacheInit
  /\ SubmitInit
  /\ submitWhenInvalid \in BOOLEAN
  /\ formFieldsRef \in {<<"a">>, <<"a", "l[0]">>}
  /\ \E p \in LiveProps :
       field = [n \in Names |->
                  IF n = "a" THEN NewField(p, SubmitValue(n), <<>>, FALSE, FALSE)
                  ELSE IF InRegistry(n)
                  THEN NewField(NoProps, SubmitValue(n), <<>>, FALSE, FALSE)
                  ELSE NoField]

NextEdit ==
  \/ \E cb \in {"returns", "throws"} : submit(cb)
  \/ \E n \in CacheNames, outcome \in {Resolved} \cup Thrown,
        cb \in {"returns", "throws"} : ValidatorSettles(n, outcome, cb)
  \/ \E v \in {"x", "y"} : FieldSetValue("a", v)
  \/ reset

SpecEdit == InitEdit /\ [][NextEdit]_vars

\* ================================================================ claims
Registered == {formFieldsRef[i] : i \in 1..Len(formFieldsRef)}

\* ---- C4 (as claimed): once a slot's getter has been called, every later
\* recompute of that slot leaves its cached value equal to the aggregate over
\* the registry, for each of errors, isValid, isDirty, isTouched.
C4_RecomputeRefreshesReadSlot ==
  /\ (lastOp = "recomputeErrors" /\ "errors" \in read
        => _errors = Some(getErrors(formFieldsRef, field)))
  /\ (lastOp = "recomputeErrors" /\ "isValid" \in read
        => _isValid = Some(getValidBoolean(formFieldsRef, field)))
  /\ (lastOp = "recomputeIsDirty" /\ "isDirty" \in read
        => _isDirty = Some(getFieldBoolean(formFieldsRef, field, "isDirty")))
  /\ (lastOp = "recomputeIsTouched" /\ "isTouched" \in read
        => _isTouched = Some(getFieldBoolean(formFieldsRef, field, "isTouched")))

\* ---- C5: a recompute leaves a slot whose getter was never called, and its
\* arm flag, exactly as they were (recomputeErrors touches only those of errors
\* and isValid that were read); an unread slot is never armed and never holds a
\* computed aggregate (only null, or the false that reset() writes).
C5_UnreadSlotFrame ==
  /\ []( /\ ("errors" \notin read
              => ~shouldRerenderErrorOnRecompute /\ _errors = Null)
         /\ ("isValid" \notin read
              => ~shouldRerenderIsValidOnRecompute /\ _isValid = Null)
         /\ ("isDirty" \notin read
              => ~shouldRerenderIsDirtyOnRecompute
                 /\ _isDirty \in {Null, Some(FALSE)})
         /\ ("isTouched" \notin read
              => ~shouldRerenderIsTouchedOnRecompute
                 /\ _isTouched \in {Null, Some(FALSE)}) )
  /\ [][ /\ (lastOp' = "recomputeErrors" /\ "errors" \notin read
              => UNCHANGED <<_errors, shouldRerenderErrorOnRecompute>>)
         /\ (lastOp' = "recomputeErrors" /\ "isValid" \notin read
              => UNCHANGED <<_isValid, shouldRerenderIsValidOnRecompute>>)
         /\ (lastOp' = "recomputeIsDirty" /\ "isDirty" \notin read
              => UNCHANGED <<_isDirty, shouldRerenderIsDirtyOnRecompute>>)
         /\ (lastOp' = "recomputeIsTouched" /\ "isTouched" \notin read
              => UNCHANGED <<_isTouched, shouldRerenderIsTouchedOnRecompute>>)
       ]_vars

\* recomputeErrors has run with errors read and armed, isValid never read, and
\* a field in error: the errors slot was refreshed, the isValid slot was not.
C5_Witness ==
  /\ lastOp = "recomputeErrors"
  /\ read = {"errors"}
  /\ _errors = Some(<<"e1">>)
  /\ _isValid = Null
  /\ _isDirty = Null

\* ---- C6: the validity aggregate is true iff every registered field has an
\* empty error list (true for the empty registry); isDirty / isTouched are true
\* iff some registered field has the flag (false for the empty registry); the
\* errors aggregate is the fields' error lists laid end to end in registry
\* order, duplicates kept. The slots filled by the getters hold these values.
RECURSIVE ErrOffset(_)
ErrOffset(i) ==
  IF i <= 1 THEN 0
  ELSE ErrOffset(i - 1) + Len(field[formFieldsRef[i - 1]].errors)

IsConcatenation(E) ==
  /\ Len(E) = ErrOffset(Len(formFieldsRef) + 1)
  /\ \A i \in 1..Len(formFieldsRef) :
       \A j \in 1..Len(field[formFieldsRef[i]].errors) :
         E[ErrOffset(i) + j] = field[formFieldsRef[i]].errors[j]

C6_Aggregates ==
  /\ getValidBoolean(formFieldsRef, field)
       = (\A n \in Registered : field[n].errors = <<>>)
  /\ getFieldBoolean(formFieldsRef, field, "isDirty")
       = (\E n \in Registered : field[n].isDirty)
  /\ getFieldBoolean(formFieldsRef, field, "isTouched")
       = (\E n \in Registered : field[n].isTouched)
  /\ IsConcatenation(getErrors(formFieldsRef, field))
  /\ (_errors # Null => IsConcatenation(_errors[1]))
  /\ (_isValid # Null
        => _isValid[1] = (\A n \in Registered : field[n].errors = <<>>))
  /\ (_isDirty # Null => _isDirty[1] = (\E n \in Registered : field[n].isDirty))
  /\ (_isTouched # Null
        => _isTouched[1] = (\E n \in Registered : field[n].isTouched))

\* Two fields, the second repeating the first one's message: all four getters
\* have computed their aggregate.
C6_Witness ==
  /\ Len(formFieldsRef) = 2
  /\ field[formFieldsRef[1]].errors = <<"e1", "e2">>
  /\ field[formFieldsRef[2]].errors = <<"e1">>
  /\ _errors = Some(<<"e1", "e2", "e1">>)
  /\ _isValid = Some(FALSE)
  /\ _isDirty = Some(TRUE)
  /\ _isTouched = Some(FALSE)

\* ---- C7: reset() is idempotent: a reset() that directly follows a reset()
\* changes no field and no cache slot or arm flag; after every reset() the
\* isDirty and isTouched slots are false and the errors slot is null.
C7_ResetIdempotent ==
  /\ [](lastOp = "reset"
          => _isDirty = Some(FALSE) /\ _isTouched = Some(FALSE) /\ _errors = Null)
  /\ [][lastOp = "reset" /\ lastOp' = "reset"
          => UNCHANGED <<fieldVars, cacheVars>>]_vars
  /\ [][lastOp' = "reset" /\ formFieldsRef = <<>> => UNCHANGED field]_vars

\* reset() has acted on a list-shaped field and a scalar-shaped field that
\* declare no reset value, after the errors slot had been read.
C7_Witness ==
  /\ lastOp = "reset"
  /\ Len(formFieldsRef) = 2
  /\ field[formFieldsRef[1]].value = "[]"
  /\ field[formFieldsRef[2]].value = "''"
  /\ "errors" \in read

\* ---- C8 (as claimed): after reset() every registered field holds its declared
\* reset value, whatever that value is; when the field declares neither a reset
\* nor an initial value it holds the empty list if list-shaped and the empty
\* string if scalar-shaped.
C8_ResetHoldsDeclaredValue ==
  lastOp = "reset" =>
    \A n \in Registered :
      /\ (field[n].props.resetWithValue # Undefined
            => field[n].value = field[n].props.resetWithValue)
      /\ (field[n].props.resetWithValue = Undefined
          /\ field[n].props.initialValue = Undefined
            => field[n].value = IF IsArray(field[n].value) THEN "[]" ELSE "''")

\* ---------------------------------------------------------------- submit()
InSnapshot == {snapshot[i] : i \in 1..Len(snapshot)}

Failed == {n \in InSnapshot : chain[n] = "false"}

Passed == {n \in InSnapshot : chain[n] = "true"}

Settled == promise \in {"true", "false", "rejected"}

\* ---- C1: with submitWhenInvalid = false, as soon as one field of a submit()
\* has failed the user onSubmit callback has not been and is not called by
\* that submit(), and once every chain has finished the promise is resolved
\* with false.
C1_GateBlocksInvalid ==
  (~submitWhenInvalid /\ Failed # {})
    => /\ onSubmitCalls = 0
       /\ onSubmitArg = Null
       /\ promise \in {"pending", "false"}
       /\ ((Failed \cup Passed = InSnapshot) => promise = "false")

\* A submit() of two fields has resolved false: one field passed, the chain of
\* the other ended on a rejecting validator.
C1_Witness ==
  /\ ~submitWhenInvalid
  /\ lastOp = "settle"
  /\ promise = "false"
  /\ Cardinality(Passed) = 1
  /\ Cardinality(Failed) = 1

\* ---- C2: with submitWhenInvalid = true, a submit() whose chains have all
\* finished has called the user onSubmit exactly once, also when fields failed,
\* and its promise is resolved with true (rejected only when that call threw,
\* never resolved with false); the object handed to the callback is the result
\* under construction, every passed field has been projected into it, every
\* leaf of it is the value projected for a passed field at that field's path,
\* and nothing was projected for a failed field.
C2_SubmitWhenInvalid ==
  submitWhenInvalid =>
    /\ (promise = "pending" => onSubmitCalls = 0)
    /\ (Settled =>
          /\ onSubmitCalls = 1
          /\ promise = IF onSubmitThrew THEN "rejected" ELSE "true"
          /\ onSubmitArg = Some(values)
          /\ \A n \in Passed :
               /\ \E k \in 1..Len(fills) : fills[k] = <<n, field[n].value>>
               /\ \E k \in 1..Len(values) : values[k][1] = NormalizedDotName(n)
          /\ \A k \in 1..Len(values) :
               \E n \in Passed :
                 /\ values[k][1] = NormalizedDotName(n)
                 /\ values[k][2] = field[n].value
          /\ \A n \in Failed : \A k \in 1..Len(fills) : fills[k][1] # n)

\* submitWhenInvalid: one field passed and one failed, the callback was called
\* once with the passed field's value alone and submit() resolved true.
C2_Witness ==
  /\ submitWhenInvalid
  /\ promise = "true"
  /\ onSubmitCalls = 1
  /\ Cardinality(Passed) = 1
  /\ Cardinality(Failed) = 1
  /\ Len(onSubmitArg[1]) = 1

\* ---- C3: in one submit() the validators of a field are invoked in the order
\* onChange, onBlur, onSubmit, each at most once, each only after the one
\* before it has settled as passed; a failed validator is the last one
\* invoked; the phases skipped in between are exactly those with no validator.
C3_PhaseOrder ==
  \A n \in Names :
    LET L == log[n]
    IN  /\ \A k \in 1..Len(L) :
             /\ field[n].props[L[k].type]
             /\ (k < Len(L)
                   => /\ L[k].status = "passed"
                      /\ PhaseIndex(L[k].type) < PhaseIndex(L[k + 1].type))
             /\ \A i \in 1..PhaseIndex(L[k].type) :
                  field[n].props[Phases[i]]
                    => \E j \in 1..k : L[j].type = Phases[i]
        /\ (Len(L) > 0 /\ L[Len(L)].status = "pending"
              => chain[n] = L[Len(L)].type)
        /\ (Len(L) > 0 /\ L[Len(L)].status = "failed" => chain[n] = "false")
        /\ (chain[n] \in Awaiting
              => Len(L) > 0 /\ L[Len(L)].status = "pending")
        /\ (chain[n] = "true"
              => \A i \in 1..Len(Phases) :
                   field[n].props[Phases[i]]
                     => \E j \in 1..Len(L) :
                          L[j].type = Phases[i] /\ L[j].status = "passed")

\* A field with the three validators whose onBlur validator failed after its
\* onChange validator had passed: onSubmit was not invoked.
C3_Witness ==
  \E n \in InSnapshot :
    /\ field[n].props.onChangeValidate
    /\ field[n].props.onBlurValidate
    /\ field[n].props.onSubmitValidate
    /\ Len(log[n]) = 2
    /\ log[n][1].status = "passed"
    /\ log[n][2].type = "onBlurValidate"
    /\ log[n][2].status = "failed"
    /\ Settled

\* ---- C9 (as claimed): when every field passed, the result handed to
\* onSubmit is the projection of the fields in registry order, whatever the
\* order in which their validators completed.
RECURSIVE ProjectInOrder(_, _)
ProjectInOrder(refs, i) ==
  IF i = 0 THEN <<>>
  ELSE fillPath(ProjectInOrder(refs, i - 1), refs[i], field[refs[i]].value)

C9_RegistryOrderProjection ==
  (onSubmitCalls = 1 /\ Passed = InSnapshot)
    => onSubmitArg = Some(ProjectInOrder(snapshot, Len(snapshot)))

\* ---- C10: a validator that throws or rejects is caught in its field's
\* chain: in that step the field's error list becomes the (non-empty) list of
\* messages getValidationError derives from the thrown error, the field's
\* chain returns false, no other field's handle, chain or validator
\* history changes, and the promise of submit() is rejected only if the user
\* onSubmit callback, called in that same step, threw.
LastCall(lg) == lg[Len(lg)]

FailsNow(n) ==
  /\ chain[n] \in Awaiting
  /\ LastCall(log'[n]).status = "failed"

C10_ValidatorErrorCaught ==
  [][\A n \in Names :
       FailsNow(n) =>
         /\ chain'[n] = "false"
         /\ LastCall(log'[n]).thrown \in Thrown
         /\ field'[n].errors = getValidationError(LastCall(log'[n]).thrown)
         /\ field'[n].errors # <<>>
         /\ \A m \in Names \ {n} :
              field'[m] = field[m] /\ chain'[m] = chain[m] /\ log'[m] = log[m]
         /\ (promise' = "rejected" => onSubmitCalls' = 1 /\ onSubmitThrew')
    ]_vars

\* A validator has just rejected with a ZodError: its field carries the two
\* messages and has failed, the other field's chain still awaits its validator
\* and submit() is pending.
C10_Witness ==
  /\ lastOp = "settle"
  /\ promise = "pending"
  /\ \E n \in InSnapshot :
       /\ chain[n] = "false"
       /\ LastCall(log[n]).thrown.kind = "zod"
       /\ field[n].errors = <<"e1", "e2">>
  /\ \E m \in InSnapshot : chain[m] \in Awaiting

\* ---- C11: when the user onSubmit callback throws, submit() does not catch
\* it: the promise of that submit() is rejected, neither resolved true nor
\* resolved false; the callback had been called once with the result object,
\* and a promise is rejected for no other reason than that throw.
C11_CallbackThrowRejects ==
  /\ (onSubmitThrew
        => promise = "rejected" /\ onSubmitCalls = 1 /\ onSubmitArg = Some(values))
  /\ (promise = "rejected" => onSubmitThrew)
  /\ (onSubmitCalls = 1 /\ ~onSubmitThrew => promise = "true")

\* A submit() whose two fields passed after a validator had been awaited ended
\* in a callback that threw: the promise is rejected.
C11_Witness ==
  /\ lastOp = "settle"
  /\ onSubmitThrew
  /\ promise = "rejected"
  /\ Cardinality(Passed) = 2
  /\ Len(values) > 0

\* ---------------------------------------------------------- getFieldValue()
SameNormalized(n, m) == NormalizedDotName(n) = NormalizedDotName(m)

FirstRegistered(S) ==
  formFieldsRef[CHOOSE i \in 1..Len(formFieldsRef) :
                  /\ formFieldsRef[i] \in S
                  /\ \A j \in 1..(i - 1) : formFieldsRef[j] \notin S]

\* What getFieldValue(name) returned: the handle registered under the literal
\* name; failing that the first registered handle of the same normalized
\* name; failing that undefined.
LookupRule ==
  lastOp = "getFieldValue" =>
    LET alike == {n \in Registered : SameNormalized(n, found.name)}
    IN  found.handle = IF found.name \in Registered THEN Some(found.name)
                       ELSE IF alike # {} THEN Some(FirstRegistered(alike))
                       ELSE Null

\* ---- C12 (as claimed): getFieldValue(name) returns the first handle of that
\* literal name, else the first handle of the same normalized name, else
\* undefined; and the query by a registered field's literal name and the query
\* by any path of the same normalized form resolve to the same handle.
C12_LookupAsClaimed ==
  /\ LookupRule
  /\ (lastOp = "getFieldValue" =>
        \A n \in Registered :
          SameNormalized(n, found.name)
            => found.handle = getFieldValue(formFieldsRef, n))

\* ---- C12 (amended): getFieldValue(name) returns the first handle of that
\* literal name, else the first handle of the same normalized name, else
\* undefined; the query by a registered field's literal name and the query by
\* a path of the same normalized form resolve to the same handle when no other
\* registered field has that normalized name.
C12_Lookup ==
  /\ LookupRule
  /\ (lastOp = "getFieldValue" =>
        \A n \in Registered :
          (/\ SameNormalized(n, found.name)
           /\ \A m \in Registered \ {n} : ~SameNormalized(m, n))
            => /\ found.handle = getFieldValue(formFieldsRef, n)
               /\ found.handle = Some(n))

\* The field registered as l[0], second in the registry, was found by the
\* query l.0, which is no registered literal name.
C12_Witness ==
  /\ lastOp = "getFieldValue"
  /\ formFieldsRef = <<"a", "l[0]">>
  /\ found = [name |-> "l.0", handle |-> Some("l[0]")]

\* ------------------------------------------------------- the public handle
InternalRegistries ==
  {"formFieldsRef", "onChangeListenerRefs", "onBlurListenerRefs",
   "onMountListenerRefs"}

\* ---- C13 (as claimed): the public handle never exposes the field registry
\* or the change / blur / mount listener registries.
C13_RegistriesHidden ==
  \A k \in InternalRegistries : k \notin DOMAIN value

\* ---- C13 (amended): the public handle has every key of the base object:
\* reset, submit and the four getters are defined by the handle itself, every
\* other key, the field registry and the three listener registries included, is
\* the base object's own member; through the handle's formFieldsRef the
\* registered fields are reachable.
C13_PublicHandleKeys ==
  /\ DOMAIN value = {BaseKeys[i] : i \in 1..Len(BaseKeys)}
  /\ \A k \in DOMAIN value :
       value[k] = IF k \in omittedKeysToPick THEN <<"val", k>> ELSE baseValue[k]
  /\ \A k \in InternalRegistries : k \in DOMAIN value
  /\ value["formFieldsRef"] = Some(formFieldsRef)

\* Two fields are registered and the handle in use carries the registry they
\* are in.
C13_Witness ==
  /\ Len(formFieldsRef) = 2
  /\ lastOp = "getFieldValue"
  /\ found.handle # Null
  /\ "formFieldsRef" \in DOMAIN value
  /\ value["formFieldsRef"] = Some(<<"l.0", "l[0]">>)

\* ------------------------------------------------------ registry changes
\* ---- C14 (as claimed): right after a field handle is registered or
\* unregistered, every armed slot that holds a cached value holds the aggregate
\* over the new registry.
C14_RegistryChangeRecomputes ==
  lastOp \in {"register", "unregister"} =>
    /\ (shouldRerenderErrorOnRecompute /\ _errors # Null
          => _errors = Some(getErrors(formFieldsRef, field)))
    /\ (shouldRerenderIsValidOnRecompute /\ _isValid # Null
          => _isValid = Some(getValidBoolean(formFieldsRef, field)))
    /\ (shouldRerenderIsDirtyOnRecompute /\ _isDirty # Null
          => _isDirty = Some(getFieldBoolean(formFieldsRef, field, "isDirty")))
    /\ (shouldRerenderIsTouchedOnRecompute /\ _isTouched # Null
          => _isTouched = Some(getFieldBoolean(formFieldsRef, field, "isTouched")))

\* ------------------------------------------------------- the end of a chain
\* The chain of n returns in this step and no validator of it failed in it:
\* n has no validator and submit() starts, or its last validator resolves.
EndsAfterPass(n) ==
  /\ chain'[n] \in {"true", "false"}
  /\ \/ /\ lastOp' = "submit"
        /\ InRegistry(n)
        /\ log'[n] = <<>>
     \/ /\ lastOp' = "settle"
        /\ chain[n] \in Awaiting
        /\ LastCall(log'[n]).status = "passed"

\* ---- C15: a field whose error list is non-empty when its chain ends after
\* every one of its validators passed is marked failed in that submit(): its
\* chain returns false, nothing is projected for it, and if the promise
\* settles in that step with submitWhenInvalid = false it resolves false
\* without a call of onSubmit; a field whose error list is empty then is
\* marked passed and projected.
C15_ErrorsAtChainEndFail ==
  [][\A n \in Names :
       EndsAfterPass(n) =>
         IF field[n].errors # <<>>
         THEN /\ chain'[n] = "false"
              /\ field'[n] = field[n]
              /\ \A k \in 1..Len(fills') : fills'[k][1] # n
              /\ (~submitWhenInvalid /\ promise' # "pending"
                    => promise' = "false" /\ onSubmitCalls' = 0)
         ELSE /\ chain'[n] = "true"
              /\ \E k \in 1..Len(fills') : fills'[k] = <<n, field[n].value>>
    ]_vars

\* The three validators of a field passed, the field had set an error of its
\* own meanwhile: its chain returned false, submit() resolved false and the
\* result object holds nothing for it.
C15_Witness ==
  /\ lastOp = "settle"
  /\ promise = "false"
  /\ \E n \in InSnapshot :
       /\ Len(log[n]) = 3
       /\ \A k \in 1..3 : log[n][k].status = "passed"
       /\ chain[n] = "false"
       /\ field[n].errors = <<"e1">>
       /\ \A k \in 1..Len(values) : values[k][1] # NormalizedDotName(n)

\* ------------------------------------------------------ all chains finish
Returned(n) == chain[n] \in {"true", "false"}

\* ---- C16: the promise of submit() settles, the gate decides and onSubmit is
\* called only once the chain of every field that was in the registry when
\* submit() started has returned, whether or not the field is still
\* registered; every such chain is run: it returns true only after all the
\* validators the field declares passed and false only after a validator of
\* its own failed or with errors on the field; a chain stops waiting only
\* because its own validator settled, never because another field failed or
\* a field was unregistered; and the set of chains is fixed when submit()
\* starts.
C16_SettlesAfterAllChains ==
  /\ []( /\ (Settled => \A n \in InSnapshot : Returned(n))
         /\ (onSubmitCalls > 0 => \A n \in InSnapshot : Returned(n))
         /\ (promise = "pending" => \E n \in InSnapshot : chain[n] \in Awaiting)
         /\ (promise # "none" => \A n \in InSnapshot : chain[n] # "none") )
  /\ [][ /\ \A m \in Names :
              (chain[m] \in Awaiting /\ chain'[m] # chain[m])
                => /\ lastOp' = "settle"
                   /\ Len(log'[m]) >= Len(log[m])
                   /\ log'[m][Len(log[m])].status # "pending"
         /\ \A m \in Names :
              (EndsAfterPass(m) /\ chain'[m] = "true")
                => \A i \in 1..Len(Phases) :
                     field[m].props[Phases[i]]
                       => \E j \in 1..Len(log'[m]) :
                            /\ log'[m][j].type = Phases[i]
                            /\ log'[m][j].status = "passed"
         /\ \A m \in Names :
              (lastOp' = "settle" /\ chain[m] \in Awaiting /\ chain'[m] = "false")
                => \/ LastCall(log'[m]).status = "failed"
                   \/ field[m].errors # <<>>
         /\ (lastOp' # "submit" => snapshot' = snapshot)
         /\ (lastOp' = "submit" => snapshot' = formFieldsRef)
       ]_vars

\* A submit() of two fields has settled: one field failed on its first
\* validator, the other went through its three validators and passed although
\* it had been unregistered meanwhile.
C16_Witness ==
  /\ lastOp = "settle"
  /\ Settled
  /\ \E n \in InSnapshot, m \in InSnapshot \ Registered :
       /\ chain[n] = "false"
       /\ Len(log[n]) = 1
       /\ LastCall(log[n]).status = "failed"
       /\ chain[m] = "true"
       /\ Len(log[m]) = 3

\* ------------------------------------------------- submit() and the cache
\* ---- C17: no step of submit(), neither its start nor the continuation after
\* a validator settles, passed or failed, up to and including the step that
\* calls onSubmit and settles the promise, changes a cache slot or an arm
\* flag: a slot that holds a cached value when submit() is called holds that
\* same value when the callback runs, even when the fields' errors changed.
C17_SubmitLeavesCache ==
  [][lastOp' \in {"submit", "settle"}
       => /\ UNCHANGED cacheVars
          /\ Cache' = Cache
          /\ UNCHANGED read]_vars

\* onSubmit has just been called by a submit() in which a validator failed:
\* the errors and isValid slots, read before the submission, still say no
\* errors and valid while the field carries the validator's message.
C17_Witness ==
  /\ lastOp = "settle"
  /\ onSubmitCalls = 1
  /\ Failed # {}
  /\ shouldRerenderErrorOnRecompute
  /\ shouldRerenderIsValidOnRecompute
  /\ _errors = Some(<<>>)
  /\ _isValid = Some(TRUE)
  /\ getErrors(formFieldsRef, field) = <<"e1">>
  /\ ~getValidBoolean(formFieldsRef, field)

\* ------------------------------------------------------------ recompute
Recomputes == {"recomputeErrors", "recomputeIsDirty", "recomputeIsTouched"}

\* The cache c after the recompute named r, over the fields as they are.
AfterRecompute(r, c) ==
  IF r = "recomputeErrors" THEN AfterRecomputeErrors(c, formFieldsRef, field)
  ELSE IF r = "recomputeIsDirty" THEN AfterRecomputeIsDirty(c, formFieldsRef, field)
  ELSE AfterRecomputeIsTouched(c, formFieldsRef, field)

\* ---- C18: recomputation is idempotent and commutative. Each recompute
\* changes the cache as a function of the cache and the fields and changes no
\* field; with the fields as they are, in every reachable state, applying a
\* recompute twice gives the cache that applying it once gives, and applying
\* any two of recomputeErrors, recomputeIsDirty and recomputeIsTouched in
\* either order gives the same cache (so does any interleaving of them); a
\* recompute that directly follows the same recompute changes nothing.
C18_RecomputeIdempotentCommutative ==
  /\ [](\A r \in Recomputes :
          LET once == AfterRecompute(r, Cache)
          IN  /\ AfterRecompute(r, once) = once
              /\ \A q \in Recomputes \ {r} :
                   AfterRecompute(q, once) = AfterRecompute(r, AfterRecompute(q, Cache)))
  /\ [][ /\ (lastOp' \in Recomputes
              => /\ Cache' = AfterRecompute(lastOp', Cache)
                 /\ UNCHANGED <<fieldVars, read>>)
         /\ (lastOp \in Recomputes /\ lastOp' = lastOp
              => UNCHANGED <<cacheVars, fieldVars>>)
       ]_vars

\* The three recomputes have run, recomputeIsTouched last, on armed slots
\* over a registry of two fields of which one is in error, dirty and touched.
C18_Witness ==
  /\ lastOp = "recomputeIsTouched"
  /\ Len(formFieldsRef) = 2
  /\ read = {"errors", "isValid", "isDirty", "isTouched"}
  /\ _errors = Some(<<"e1">>)
  /\ _isValid = Some(FALSE)
  /\ _isDirty = Some(TRUE)
  /\ _isTouched = Some(TRUE)

\* ------------------------------------------------- edits during submit()
\* ---- C19 (as claimed): every value projected into the result for a field
\* is a value that each validator the field declares was run against, and
\* accepted, in that submit(), also when the field was edited or reset while
\* its chain was suspended.
C19_ProjectedValueValidated ==
  \A k \in 1..Len(fills) :
    \A i \in 1..Len(Phases) :
      field[fills[k][1]].props[Phases[i]]
        => \E j \in 1..Len(log[fills[k][1]]) :
             /\ log[fills[k][1]][j].type = Phases[i]
             /\ log[fills[k][1]][j].status = "passed"
             /\ log[fills[k][1]][j].value = fills[k][2]

\* ------------------------------------------------- errors against isValid
\* ---- C20 (as claimed): whenever the errors slot and the isValid slot both
\* hold a computed value, cached isValid is true if and only if the cached
\* errors list is empty.
C20_ErrorsAndIsValidAgree ==
  (_errors # Null /\ _isValid # Null) => (_isValid[1] <=> (_errors[1] = <<>>))

====
